---- MODULE Spec2Model ----
(***************************************************************************)
(* ResearchNinja: the content-research pipeline (backend/scraper.py) and   *)
(* the report generation gateway (backend/ai_integration.py).              *)
(*                                                                         *)
(* Spec     models search_and_extract_content: search fan-out, URL         *)
(*          deduplication, custom-URL injection, shuffle and the           *)
(*          rate-limited extraction loop with its quota.                   *)
(* SpecGen  models generate_ai_response: citation formatting, the fallback *)
(*          report, provider dispatch, context building and the HTTP       *)
(*          exchange of each backend.                                      *)
(* SpecSearch models the search fan-out call by call (search_web and its   *)
(*          failures), up to the candidate list.                           *)
(* SpecInject models the candidate list for longer lists of custom URLs.   *)
(* SpecFetch models get_website_text_content attempt by attempt.           *)
(* SpecCrawl models the extraction loop with every attempt of every fetch  *)
(*          and the pauses between them.                                   *)
(* SpecRerun models repeated calls of generate_ai_response on one list.    *)
(* SpecParams models the request parameters of search_web.                 *)
(* SpecApi  models the REST service (backend/api.py) and its store.        *)
(* SpecKeys models APIKeyValidator.save_api_key (utils/api_validator.py).  *)
(*                                                                         *)
(* Strings that the code only measures are represented by their lengths:   *)
(* a page text is [len, strip] (len(text), len(text.strip())), a stored    *)
(* content is [src, take, marker] (the first `take` characters of src,     *)
(* followed by "..." when marker).  A URL is [netloc, stem, ext]: what     *)
(* urlparse(url).netloc and urlparse(url).path (stem \o ext) give.         *)
(***************************************************************************)
EXTENDS Naturals, Sequences, FiniteSets, TLC

VARIABLES
    pc,                   \* position in search_and_extract_content
    search_depth,         \* argument search_depth (= total_depth)
    custom_urls,          \* argument custom_urls
    search_calls,         \* the search_web calls issued: [category, num_results]
    all_search_results,   \* scraper.py:164-172
    seen_urls,            \* scraper.py:175
    unique_results,       \* scraper.py:176, shuffled in place at :197
    idx,                  \* position of the for loop at scraper.py:198
    results_with_content, \* scraper.py:195
    processed_count,      \* scraper.py:196
    pauses,               \* number of time.sleep calls at scraper.py:213
    served,               \* the calls of get_website_text_content so far, in order:
                          \* [url, raised, text] (what each call returned or that it raised)
    gen_pc,               \* position in generate_ai_response
    query,                \* argument query
    search_results,       \* argument search_results
    model,                \* argument model
    environ,              \* the credential variables that are set (os.getenv)
    formatted_sources,    \* ai_integration.py:46-53
    handler,              \* the backend function that was called, "none" before
    context,              \* the "Source [n]" entries of the rendered context
    source_mapping,       \* ai_integration.py:124
    requests_sent,        \* the outcomes of the HTTP POSTs of this call, in order
    retry_count,          \* ai_integration.py:418
    response,             \* the text generate_ai_response returns
    search_outcomes,      \* what each search_web call of the fan-out did: [kind, hits]
    fetch_pc,             \* position in get_website_text_content
    fetch_url,            \* argument url
    attempt,              \* scraper.py:48
    gets,                 \* the outcomes of the requests.get calls, in order
    sleeps,               \* number of time.sleep(1) calls at scraper.py:53, 78
    fetched,              \* what get_website_text_content did: [raised, text]
    earlier,              \* the calls of generate_ai_response that have returned
                          \* before the running one: [search_results, handler,
                          \* built, formatted_sources, context]
    sw_pc,                \* where one call of search_web stands
    search_args,          \* its arguments: [query, recency, num_results]
    search_params,        \* the parameters it hands to GoogleSearch: a set of
                          \* <<name, value>>
    clock,                \* int(time.time()): the time in whole seconds
    research_store,       \* api.py:61: the stored results, a set of
                          \* [research_id, request]; research_id is the number in
                          \* "research_<n>", request the number of the POST it
                          \* is the result of
    api_log,              \* the requests the service has answered:
                          \* [endpoint, research_id, format, known, status, request]
    key_store,            \* os.environ for the names of API_CONFIG: name -> value
    save_log,             \* the calls of save_api_key that have returned:
                          \* [key_name, value, returned, before, after]
    trace                 \* the pauses and the requests.get calls of the run, in order:
                          \* [kind, url, attempt], kind being "pause" (scraper.py:213),
                          \* "get" (scraper.py:50) or "sleep" (scraper.py:53, 78)

pipeVars == <<pc, search_depth, custom_urls, search_calls, all_search_results, seen_urls,
              unique_results, idx, results_with_content, processed_count,
              pauses, served>>

genVars == <<gen_pc, query, search_results, model, environ, formatted_sources,
             handler, context, source_mapping, requests_sent, retry_count, response,
             earlier>>

fetchVars == <<fetch_pc, fetch_url, attempt, gets, sleeps, fetched, trace>>

paramVars == <<sw_pc, search_args, search_params>>

\* The state of search_web's request and of the service around the pipeline
apiVars == <<clock, research_store, api_log>>

keyVars == <<key_store, save_log>>

svcVars == <<paramVars, apiVars, keyVars>>

----------------------------------------------------------------------------
(* Bounds of the explored inputs *)

MaxHits == 2
MaxCustom == 1
MaxDocs == 3

----------------------------------------------------------------------------
(* Program constants *)

MinContentLength == 100
max_content_length == 10000
MarkerLength == 3
FacetDepth == 3
MaxSearchDepth == 10
MAX_RETRIES == 3

----------------------------------------------------------------------------
(* Input pools *)

\* The depths explored: below the facet threshold (only the general search runs,
\* the quota is within reach of the candidates) and at it.
SearchDepths == 1..FacetDepth

EmptyUrl == [netloc |-> "", stem |-> "", ext |-> ""]

Urls ==
    { EmptyUrl,
      [netloc |-> "a.com", stem |-> "/p", ext |-> ""],
      [netloc |-> "b.org", stem |-> "/q", ext |-> ".html"],
      [netloc |-> "c.net", stem |-> "/r", ext |-> ".PDF"] }

\* A search hit of the general search carries no "category" key.
NoCategory == "<absent>"

Facets == <<"business_viability", "competitors", "audience", "trends", "regulatory">>

search_categories == <<"general">> \o Facets

Range(s) == { s[i] : i \in DOMAIN s }

SeqsUpTo(S, n) == UNION { [1..k -> S] : k \in 0..n }

\* result.get("category", "general")
GetCategory(result) ==
    IF result.category = NoCategory THEN "general" ELSE result.category

CategoryIndex(c) == CHOOSE i \in DOMAIN search_categories : search_categories[i] = c

\* get_website_text_content returns "" or a text whose stripped length is at
\* least 100 (scraper.py:59, 64, 72, 81), or an exception other than a
\* RequestException escapes it.  WebOutcomes(url) is what the explored web
\* makes it do for url: [raised, text].
EmptyText == [len |-> 0, strip |-> 0]

Returns(text) == [raised |-> FALSE, text |-> text]

Raises == [raised |-> TRUE, text |-> EmptyText]

WebOutcomes(url) ==
    IF url.netloc = "a.com"
    THEN { Returns(EmptyText),
           Returns([len |-> 100, strip |-> 100]),
           Returns([len |-> 10001, strip |-> 10001]) }
    ELSE { Raises,
           Returns([len |-> 10000, strip |-> 9990]) }

----------------------------------------------------------------------------
(* get_website_text_content *)

\* scraper.py:63, 71: "content and len(content.strip()) >= 100"
Sufficient(text) == text # EmptyText /\ text.strip >= MinContentLength

\* An HTML page is [extracted, visible]: what trafilatura.extract gives for it
\* (EmptyText for None or "") and what soup.get_text(separator=' ',
\* strip=True) gives once the scripts and styles are removed.
Pages ==
    { [extracted |-> x, visible |-> v] :
        x \in { EmptyText, [len |-> 120, strip |-> 99], [len |-> 102, strip |-> 100] },
        v \in { EmptyText, [len |-> 99, strip |-> 99], [len |-> 100, strip |-> 100] } }

NoPage == [extracted |-> EmptyText, visible |-> EmptyText]

\* What one requests.get can lead to: [kind, page].
\*   request_error     requests.get raises a RequestException
\*   not_ok            response.ok is false
\*   not_html          the content type does not contain text/html
\*   unexpected_error  an exception that is no RequestException is raised
\*   html              an HTML page arrives
GetOutcomes ==
    { [kind |-> k, page |-> NoPage] :
        k \in {"request_error", "not_ok", "not_html", "unexpected_error"} }
    \cup { [kind |-> "html", page |-> p] : p \in Pages }

\* scraper.py:62-72: the text taken from a page, trafilatura first
ExtractedText(page) ==
    IF Sufficient(page.extracted) THEN page.extracted ELSE page.visible

\* Mutant of AttemptFails: a response that is not HTML fails the attempt only.
AttemptFailsOrNotHtml(outcome) ==
    \/ outcome.kind \in {"request_error", "not_ok", "not_html"}
    \/ outcome.kind = "html" /\ ~Sufficient(ExtractedText(outcome.page))

\* The outcomes after which the loop goes on to the next attempt:
\* scraper.py:51-54 (continue), 73-74 (falls out of the try), 75-76 (except)
AttemptFails(outcome) ==
    \/ outcome.kind \in {"request_error", "not_ok"}
    \/ outcome.kind = "html" /\ ~Sufficient(ExtractedText(outcome.page))

\* Mutant of SleepsAfter: no pause before the "continue" of scraper.py:54.
SleepsAfterUnlessNotOk(outcome) == AttemptFails(outcome) /\ outcome.kind # "not_ok"

\* scraper.py:53, 78: time.sleep(1) ends every attempt that failed
SleepsAfter(outcome) == AttemptFails(outcome)

Event(kind, url, n) == [kind |-> kind, url |-> url, attempt |-> n]

\* Mutant of AttemptsLeft: the loop runs once more.
AttemptsLeftOneMore(n) == n < MAX_RETRIES + 1

\* scraper.py:48: for attempt in range(1, MAX_RETRIES+1)
AttemptsLeft(n) == n < MAX_RETRIES

\* One iteration of the loop with the given outcome of requests.get
Get(outcome) ==
    /\ fetch_pc = "get"
    /\ gets' = Append(gets, outcome)
    /\ trace' = trace \o <<Event("get", fetch_url, attempt)>>
                      \o (IF SleepsAfter(outcome)
                          THEN <<Event("sleep", fetch_url, attempt)>> ELSE <<>>)
    /\ IF AttemptFails(outcome)
       THEN \* time.sleep(1) at scraper.py:53 or :78, then the next attempt or,
            \* after the last one, return "" (scraper.py:80-81)
            /\ sleeps' = (IF SleepsAfter(outcome) THEN sleeps + 1 ELSE sleeps)
            /\ IF AttemptsLeft(attempt)
               THEN /\ attempt' = attempt + 1
                    /\ UNCHANGED <<fetch_pc, fetched>>
               ELSE /\ fetch_pc' = "done"
                    /\ fetched' = Returns(EmptyText)
                    /\ UNCHANGED attempt
       ELSE /\ fetch_pc' = "done"
            /\ fetched' =
                  CASE outcome.kind = "unexpected_error" -> Raises
                    [] outcome.kind = "not_html" -> Returns(EmptyText)
                    [] OTHER -> Returns(ExtractedText(outcome.page))
            /\ UNCHANGED <<attempt, sleeps>>
    /\ UNCHANGED fetch_url
    /\ UNCHANGED <<pipeVars, genVars, search_outcomes, svcVars>>

\* scraper.py:75-76
GetRequestError == Get([kind |-> "request_error", page |-> NoPage])

\* scraper.py:51-54
GetNotOk == Get([kind |-> "not_ok", page |-> NoPage])

\* scraper.py:56-59
GetNotHtml == Get([kind |-> "not_html", page |-> NoPage])

\* an exception other than a RequestException leaves the function
GetUnexpectedError == Get([kind |-> "unexpected_error", page |-> NoPage])

\* scraper.py:61-74
GetHtml == \E p \in Pages : Get([kind |-> "html", page |-> p])

FetchInit ==
    /\ fetch_pc = "get"
    /\ fetch_url \in { u \in Urls : u # EmptyUrl }
    /\ attempt = 1
    /\ gets = <<>>
    /\ sleeps = 0
    /\ fetched = Returns(EmptyText)
    /\ trace = <<>>

FetchNext ==
    \/ GetRequestError
    \/ GetNotOk
    \/ GetNotHtml
    \/ GetUnexpectedError
    \/ GetHtml

----------------------------------------------------------------------------
(* search_web *)

SearchEnvironments == { {}, {"SERP_API_KEY"} }

\* scraper.py:95-96
HasSearchKey(env) == "SERP_API_KEY" \in env

\* GoogleSearch(search_params).get_dict() raises: the provider reports an
\* error, the request times out
SearchFailures == {"error", "timeout"}

\* Mutant of Caught: only the provider's errors are caught.
CaughtErrorsOnly(kind) == kind = "error"

\* scraper.py:132: except Exception
Caught(kind) == kind \in SearchFailures

Min(a, b) == IF a < b THEN a ELSE b

\* What one call of search_web does: [kind, hits], hits being the urls of the
\* results it returns.  Without the key it returns [] at once
\* (scraper.py:96-98); otherwise the provider fails or answers with at most
\* num_results results, of which at most room are explored.
CallOutcomes(env, num_results, room) ==
    IF ~HasSearchKey(env)
    THEN { [kind |-> "no_key", hits |-> <<>>] }
    ELSE { [kind |-> f, hits |-> <<>>] : f \in SearchFailures }
         \cup { [kind |-> "ok", hits |-> h] : h \in SeqsUpTo(Urls, Min(num_results, room)) }

\* scraper.py:124-131 and 170-171: the results of one call as they enter
\* all_search_results, those of a facet search tagged with its category
Tagged(hits, category, offset) ==
    [i \in DOMAIN hits |->
        [title |-> "t" \o ToString(offset + i), url |-> hits[i],
         category |-> IF category = "general" THEN NoCategory ELSE category]]

----------------------------------------------------------------------------
(* search_and_extract_content *)

\* Mutant of results_per_category: the depth is divided by the number of facets.
ResultsPerFacet(depth) ==
    LET q == depth \div Len(Facets)
    IN  IF q > 1 THEN q ELSE 1

\* scraper.py:163
results_per_category(depth) ==
    LET q == depth \div Len(search_categories)
    IN  IF q > 1 THEN q ELSE 1

\* scraper.py:164-169: the general search, then the facet searches
SearchCalls(depth) ==
    <<[category |-> "general", num_results |-> results_per_category(depth) * 2]>>
    \o (IF depth >= FacetDepth
        THEN [i \in DOMAIN Facets |->
                [category |-> Facets[i], num_results |-> results_per_category(depth)]]
        ELSE <<>>)

\* The concatenation of the hit lists: the general hits (untagged) first, then,
\* when search_depth >= 3, the hits of the facet searches in the fixed order,
\* each tagged with its category.
HitCategories(depth) ==
    IF depth >= FacetDepth THEN { NoCategory } \cup Range(Facets) ELSE { NoCategory }

HitRank(c) == IF c = NoCategory THEN 1 ELSE CategoryIndex(c)

SearchOutcomes(depth) ==
    { [ i \in DOMAIN f |->
          [title |-> "t" \o ToString(i), url |-> f[i][1], category |-> f[i][2]] ] :
      f \in { g \in SeqsUpTo(Urls \X HitCategories(depth), MaxHits) :
                \A i \in DOMAIN g : \A j \in DOMAIN g :
                    i < j => HitRank(g[i][2]) <= HitRank(g[j][2]) } }

SearchFanout ==
    /\ pc = "search"
    /\ search_calls' = SearchCalls(search_depth)
    /\ \E hits \in (IF HasSearchKey(environ) THEN SearchOutcomes(search_depth) ELSE {<<>>}) :
          all_search_results' = hits
    /\ pc' = "dedup"
    /\ UNCHANGED <<search_depth, custom_urls, seen_urls, unique_results, idx,
                   results_with_content, processed_count, pauses, served>>
    /\ UNCHANGED <<genVars, search_outcomes, fetchVars, svcVars>>

\* scraper.py:164-172, one call of search_web at a time: the next search of the
\* fan-out is issued and its results are appended.  An exception that
\* search_web did not catch would leave search_and_extract_content.
SearchWeb ==
    /\ pc = "search"
    /\ Len(search_calls) < Len(SearchCalls(search_depth))
    /\ LET k == Len(search_calls) + 1
           call == SearchCalls(search_depth)[k]
       IN  \E outcome \in CallOutcomes(environ, call.num_results,
                                       MaxHits - Len(all_search_results)) :
              /\ search_calls' = Append(search_calls, call)
              /\ search_outcomes' = Append(search_outcomes, outcome)
              /\ IF outcome.kind \in SearchFailures /\ ~Caught(outcome.kind)
                 THEN /\ pc' = "raised"
                      /\ UNCHANGED all_search_results
                 ELSE /\ all_search_results' =
                            all_search_results
                            \o Tagged(outcome.hits, call.category, Len(all_search_results))
                      /\ pc' = IF k = Len(SearchCalls(search_depth))
                               THEN "dedup" ELSE "search"
    /\ UNCHANGED <<search_depth, custom_urls, seen_urls, unique_results, idx,
                   results_with_content, processed_count, pauses, served>>
    /\ UNCHANGED <<genVars, fetchVars, svcVars>>

\* Mutant of DedupFrom: a later hit of a url replaces the entry kept for it.
RECURSIVE DedupKeepsLast(_, _, _, _)
DedupKeepsLast(results, i, seen, unique) ==
    IF i > Len(results) THEN [seen |-> seen, unique |-> unique]
    ELSE LET url == results[i].url
         IN  IF url = EmptyUrl
             THEN DedupKeepsLast(results, i + 1, seen, unique)
             ELSE IF url \notin seen
             THEN DedupKeepsLast(results, i + 1, seen \cup {url}, Append(unique, results[i]))
             ELSE DedupKeepsLast(results, i + 1, seen,
                      [k \in DOMAIN unique |->
                          IF unique[k].url = url THEN results[i] ELSE unique[k]])

\* scraper.py:174-181
RECURSIVE DedupFrom(_, _, _, _)
DedupFrom(results, i, seen, unique) ==
    IF i > Len(results) THEN [seen |-> seen, unique |-> unique]
    ELSE LET url == results[i].url
         IN  IF url # EmptyUrl /\ url \notin seen
             THEN DedupFrom(results, i + 1, seen \cup {url}, Append(unique, results[i]))
             ELSE DedupFrom(results, i + 1, seen, unique)

RemoveDuplicates ==
    /\ pc = "dedup"
    /\ LET d == DedupFrom(all_search_results, 1, {}, <<>>)
       IN  /\ seen_urls' = d.seen
           /\ unique_results' = d.unique
    /\ pc' = "custom"
    /\ UNCHANGED <<search_depth, custom_urls, search_calls, all_search_results, idx,
                   results_with_content, processed_count, pauses, served>>
    /\ UNCHANGED <<genVars, search_outcomes, fetchVars, svcVars>>

\* scraper.py:188-193
CustomHit(url) ==
    [title |-> "Custom Source: " \o url.netloc, url |-> url, category |-> "custom"]

\* scraper.py:184-193
RECURSIVE InjectFrom(_, _, _, _)
InjectFrom(urls, i, seen, unique) ==
    IF i > Len(urls) THEN [seen |-> seen, unique |-> unique]
    ELSE IF urls[i] \notin seen
         THEN InjectFrom(urls, i + 1, seen \cup {urls[i]}, <<CustomHit(urls[i])>> \o unique)
         ELSE InjectFrom(urls, i + 1, seen, unique)

InjectCustomUrls ==
    /\ pc = "custom"
    /\ LET d == InjectFrom(custom_urls, 1, seen_urls, unique_results)
       IN  /\ seen_urls' = d.seen
           /\ unique_results' = d.unique
    /\ pc' = "shuffle"
    /\ UNCHANGED <<search_depth, custom_urls, search_calls, all_search_results, idx,
                   results_with_content, processed_count, pauses, served>>
    /\ UNCHANGED <<genVars, search_outcomes, fetchVars, svcVars>>

\* random.shuffle(unique_results), scraper.py:197
Shuffle ==
    /\ pc = "shuffle"
    /\ \E p \in Permutations(DOMAIN unique_results) :
          unique_results' = [i \in DOMAIN unique_results |-> unique_results[p[i]]]
    /\ pc' = "loop"
    /\ UNCHANGED <<search_depth, custom_urls, search_calls, all_search_results, seen_urls, idx,
                   results_with_content, processed_count, pauses, served>>
    /\ UNCHANGED <<genVars, search_outcomes, fetchVars, svcVars>>

\* Mutant of Lower: the path is compared as it is written.
AsWritten(ext) == ext

\* parsed_url.path.lower()
Lower(ext) ==
    CASE ext = ".PDF" -> ".pdf"
      [] ext = ".Docx" -> ".docx"
      [] OTHER -> ext

FileExtensions == {".pdf", ".doc", ".docx", ".ppt", ".pptx", ".xls", ".xlsx"}

\* scraper.py:206-207
IsFileUrl(url) == Lower(url.ext) \in FileExtensions

\* Mutant of Truncate: the comparison is >= instead of >.
TruncateAtLimit(text) ==
    IF text.len >= max_content_length
    THEN [src |-> text, take |-> max_content_length, marker |-> TRUE]
    ELSE [src |-> text, take |-> text.len, marker |-> FALSE]

\* scraper.py:222-224
Truncate(text) ==
    IF text.len > max_content_length
    THEN [src |-> text, take |-> max_content_length, marker |-> TRUE]
    ELSE [src |-> text, take |-> text.len, marker |-> FALSE]

ContentLen(content) == content.take + (IF content.marker THEN MarkerLength ELSE 0)

\* scraper.py:218
Insufficient(text) == text = EmptyText \/ text.strip < MinContentLength

\* scraper.py:225-232
ResultWithContent(result, text) ==
    [title |-> result.title, url |-> result.url, content |-> Truncate(text),
     category |-> GetCategory(result)]

InLoop == pc = "loop" /\ idx <= Len(unique_results)

\* Mutant of QuotaReached: every fetch counts toward the quota, failed or not.
QuotaCountsFailures == Len(served) >= search_depth

\* Mutant of QuotaReached: the loop stops one document late.
QuotaOffByOne == processed_count > search_depth

\* scraper.py:199
QuotaReached == processed_count >= search_depth

\* scraper.py:199-200
QuotaBreak ==
    /\ InLoop
    /\ QuotaReached
    /\ pc' = "done"
    /\ UNCHANGED <<search_depth, custom_urls, search_calls, all_search_results, seen_urls,
                   unique_results, idx, results_with_content, processed_count,
                   pauses, served>>
    /\ UNCHANGED <<genVars, search_outcomes, fetchVars, svcVars>>

Proceeds == InLoop /\ ~QuotaReached

\* scraper.py:202-204
SkipEmptyUrl ==
    /\ Proceeds
    /\ unique_results[idx].url = EmptyUrl
    /\ idx' = idx + 1
    /\ UNCHANGED <<pc, search_depth, custom_urls, search_calls, all_search_results, seen_urls,
                   unique_results, results_with_content, processed_count,
                   pauses, served>>
    /\ UNCHANGED <<genVars, search_outcomes, fetchVars, svcVars>>

\* scraper.py:206-209
SkipFileUrl ==
    /\ Proceeds
    /\ unique_results[idx].url # EmptyUrl
    /\ IsFileUrl(unique_results[idx].url)
    /\ idx' = idx + 1
    /\ UNCHANGED <<pc, search_depth, custom_urls, search_calls, all_search_results, seen_urls,
                   unique_results, results_with_content, processed_count,
                   pauses, served>>
    /\ UNCHANGED <<genVars, search_outcomes, fetchVars, svcVars>>

\* scraper.py:211-217: the pause, then the call of get_website_text_content
Fetches(outcome) ==
    /\ Proceeds
    /\ unique_results[idx].url # EmptyUrl
    /\ ~IsFileUrl(unique_results[idx].url)
    /\ pauses' = pauses + 1
    /\ served' = Append(served, [url |-> unique_results[idx].url,
                                 raised |-> outcome.raised, text |-> outcome.text])
    /\ idx' = idx + 1

\* scraper.py:218-220: the content is insufficient, the candidate is skipped
ExtractInsufficient ==
    /\ Proceeds
    /\ \E outcome \in WebOutcomes(unique_results[idx].url) :
          /\ ~outcome.raised
          /\ Insufficient(outcome.text)
          /\ Fetches(outcome)
    /\ UNCHANGED <<pc, search_depth, custom_urls, search_calls, all_search_results,
                   seen_urls, unique_results, results_with_content, processed_count>>
    /\ UNCHANGED <<genVars, search_outcomes, fetchVars, svcVars>>

\* scraper.py:236-237: the fetch raises, the candidate is skipped
ExtractRaises ==
    /\ Proceeds
    /\ \E outcome \in WebOutcomes(unique_results[idx].url) :
          /\ outcome.raised
          /\ Fetches(outcome)
    /\ UNCHANGED <<pc, search_depth, custom_urls, search_calls, all_search_results,
                   seen_urls, unique_results, results_with_content, processed_count>>
    /\ UNCHANGED <<genVars, search_outcomes, fetchVars, svcVars>>

\* scraper.py:222-235: the document is appended and counted
ExtractDocument ==
    /\ Proceeds
    /\ \E outcome \in WebOutcomes(unique_results[idx].url) :
          /\ ~outcome.raised
          /\ ~Insufficient(outcome.text)
          /\ Fetches(outcome)
          /\ results_with_content' =
                Append(results_with_content,
                       ResultWithContent(unique_results[idx], outcome.text))
    /\ processed_count' = processed_count + 1
    /\ UNCHANGED <<pc, search_depth, custom_urls, search_calls, all_search_results,
                   seen_urls, unique_results>>
    /\ UNCHANGED <<genVars, search_outcomes, fetchVars, svcVars>>

\* scraper.py:198, 239-241: the candidates ran out
Exhausted ==
    /\ pc = "loop"
    /\ idx > Len(unique_results)
    /\ pc' = "done"
    /\ UNCHANGED <<search_depth, custom_urls, search_calls, all_search_results, seen_urls,
                   unique_results, idx, results_with_content, processed_count,
                   pauses, served>>
    /\ UNCHANGED <<genVars, search_outcomes, fetchVars, svcVars>>

\* search_and_extract_content is entered
PipeEntered ==
    /\ pc = "search"
    /\ search_calls = <<>>
    /\ all_search_results = <<>>
    /\ seen_urls = {}
    /\ unique_results = <<>>
    /\ idx = 1
    /\ results_with_content = <<>>
    /\ processed_count = 0
    /\ pauses = 0
    /\ served = <<>>

PipeInit ==
    /\ pc = "search"
    /\ search_depth \in SearchDepths
    /\ custom_urls \in SeqsUpTo(Urls, MaxCustom)
    /\ search_calls = <<>>
    /\ all_search_results = <<>>
    /\ seen_urls = {}
    /\ unique_results = <<>>
    /\ idx = 1
    /\ results_with_content = <<>>
    /\ processed_count = 0
    /\ pauses = 0
    /\ served = <<>>

\* search_and_extract_content is not running
PipeIdle ==
    /\ pc = "idle"
    /\ search_depth = 1
    /\ custom_urls = <<>>
    /\ search_calls = <<>>
    /\ all_search_results = <<>>
    /\ seen_urls = {}
    /\ unique_results = <<>>
    /\ idx = 1
    /\ results_with_content = <<>>
    /\ processed_count = 0
    /\ pauses = 0
    /\ served = <<>>

PipeNext ==
    \/ SearchFanout
    \/ RemoveDuplicates
    \/ InjectCustomUrls
    \/ Shuffle
    \/ QuotaBreak
    \/ SkipEmptyUrl
    \/ SkipFileUrl
    \/ ExtractInsufficient
    \/ ExtractRaises
    \/ ExtractDocument
    \/ Exhausted

----------------------------------------------------------------------------
(* generate_ai_response *)

Models == {"GPT-4o mini", "Gemini", "Claude", "Cohere", "Llama"}

\* Mutant of Handler: a model name that is not known goes to Gemini.
HandlerDefaultsToGemini(m) ==
    CASE m = "GPT-4o mini" -> "openai"
      [] m = "Gemini" -> "gemini"
      [] m = "Claude" -> "anthropic"
      [] m = "Cohere" -> "cohere"
      [] OTHER -> "gemini"

\* ai_integration.py:72-83
Handler(m) ==
    CASE m = "GPT-4o mini" -> "openai"
      [] m = "Gemini" -> "gemini"
      [] m = "Claude" -> "anthropic"
      [] m = "Cohere" -> "cohere"
      [] OTHER -> "openai"

\* ai_integration.py:106, 315, 388, 475
KeyVar(h) ==
    CASE h = "openai" -> "OPENAI_API_KEY"
      [] h = "gemini" -> "GEMINI_API_KEY"
      [] h = "anthropic" -> "ANTHROPIC_API_KEY"
      [] h = "cohere" -> "COHERE_API_KEY"

\* environ is the set of the variables that hold a non-empty value: os.getenv
\* gives None for an unset variable and "" for an empty one, and "not api_key"
\* is true of both.
Environments ==
    { {}, {"OPENAI_API_KEY"},
      {"OPENAI_API_KEY", "GEMINI_API_KEY", "ANTHROPIC_API_KEY", "COHERE_API_KEY"} }

\* Mutant of HasCredential: the backends do not test the key.
CredentialAssumed(h, env) == TRUE

\* ai_integration.py:108, 317, 390, 477: "if not api_key" fails
HasCredential(h, env) == KeyVar(h) \in env

\* A query is [len, mentions]: its length and which of the words that
\* _generate_dummy_response looks for occur in it.
EmptyQuery == [len |-> 0, mentions |-> {}]

Queries == { EmptyQuery, [len |-> 27, mentions |-> {"trend", "customer"}] }

\* The documents search_and_extract_content can return: a fetchable url, a
\* stored content, the category of the hit.
DocUrls ==
    { u \in Urls : u # EmptyUrl /\ ~IsFileUrl(u) }
    \cup { [netloc |-> "d.io", stem |-> "/s", ext |-> ""] }

DocCategories == {"general", "business_viability", "trends", "custom"}

Document(url, category) ==
    ResultWithContent(
        IF category = "custom" THEN CustomHit(url)
        ELSE [title |-> "t1", url |-> url, category |-> category],
        [len |-> 100, strip |-> 100])

DocumentLists ==
    SeqsUpTo({ Document(u, c) : u \in DocUrls, c \in DocCategories }, MaxDocs)

\* ai_integration.py:46-53
FormatSources(results) ==
    [i \in DOMAIN results |->
        [id |-> i, title |-> results[i].title, url |-> results[i].url]]

\* ai_integration.py:61-64
HasContent(result) == ContentLen(result.content) > 0

ValidResults(results) == SelectSeq(results, HasContent)

\* Mutant of UsesFallback: the empty-result checks are missing.
NeverFallsBack(results) == FALSE

\* ai_integration.py:56, 66
UsesFallback(results) == results = <<>> \/ ValidResults(results) = <<>>

\* ai_integration.py:554-560
ResearchType(q) ==
    IF "competitor" \in q.mentions \/ "competition" \in q.mentions THEN "competitor"
    ELSE IF "trend" \in q.mentions THEN "trend"
    ELSE IF "customer" \in q.mentions \/ "consumer" \in q.mentions THEN "customer"
    ELSE "market"

\* A returned text is [kind, empty, has_markers, sources_appended]: what it is,
\* whether it is the empty string, whether it holds a "[n]" citation marker,
\* and whether a "## Sources" list built from formatted_sources ends it.
Text(kind, markers, sources) ==
    [kind |-> kind, empty |-> FALSE, has_markers |-> markers, sources_appended |-> sources]

\* ai_integration.py:545-547, 562-792
DummyResponse(q, sources) ==
    IF q.len = 0 THEN Text("invalid_query", FALSE, FALSE)
    ELSE Text("template_" \o ResearchType(q), TRUE, TRUE)

\* ai_integration.py:86, 809: any(f"[{i+1}]" for i in range(len(sources))) tests
\* the strings "[1]", "[2]", ... themselves, each of which is true.
AnyMarker(sources) == \E i \in 1..Len(sources) : TRUE

\* ai_integration.py:85-91
Assemble(text, sources) ==
    IF ~AnyMarker(sources) /\ sources # <<>>
    THEN [text EXCEPT !.sources_appended = TRUE]
    ELSE text

\* ai_integration.py:127-229: the order of the category blocks
KnownCategories ==
    <<"general", "business_viability", "competitors", "audience", "trends",
      "regulatory", "custom">>

\* ai_integration.py:113-119: the keys of categorized_results in insertion order
RECURSIVE CategoryKeys(_, _, _)
CategoryKeys(results, i, keys) ==
    IF i > Len(results) THEN keys
    ELSE IF GetCategory(results[i]) \in Range(keys)
         THEN CategoryKeys(results, i + 1, keys)
         ELSE CategoryKeys(results, i + 1, Append(keys, GetCategory(results[i])))

\* ai_integration.py:232-233
IsKnown(category) == category \in Range(KnownCategories)

IsUnknown(category) == ~IsKnown(category)

\* The positions in results of the documents of one category, in list order
\* (categorized_results[category]).
RECURSIVE PositionsOf(_, _, _)
PositionsOf(results, category, i) ==
    IF i > Len(results) THEN <<>>
    ELSE IF GetCategory(results[i]) = category
         THEN <<i>> \o PositionsOf(results, category, i + 1)
         ELSE PositionsOf(results, category, i + 1)

\* source_mapping[url] = n
Put(mapping, url, n) ==
    { e \in mapping : e.url # url } \cup { [url |-> url, n |-> n] }

Mapped(mapping) == { e.url : e \in mapping }

\* One category block.  The blocks after the general one skip a result whose
\* url is already in source_mapping (ai_integration.py:145-146); the general
\* block (ai_integration.py:129-138) has no such test.
RECURSIVE EmitResults(_, _, _, _, _)
EmitResults(results, positions, k, category, st) ==
    IF k > Len(positions) THEN st
    ELSE LET result == results[positions[k]]
         IN  IF category # "general" /\ result.url \in Mapped(st.source_mapping)
             THEN EmitResults(results, positions, k + 1, category, st)
             ELSE EmitResults(results, positions, k + 1, category,
                     [context |-> Append(st.context,
                                     [n |-> st.source_index, url |-> result.url,
                                      title |-> result.title, category |-> category,
                                      position |-> positions[k]]),
                      source_mapping |-> Put(st.source_mapping, result.url, st.source_index),
                      source_index |-> st.source_index + 1])

RECURSIVE EmitCategories(_, _, _, _)
EmitCategories(results, categories, k, st) ==
    IF k > Len(categories) THEN st
    ELSE EmitCategories(results, categories, k + 1,
            EmitResults(results, PositionsOf(results, categories[k], 1), 1,
                        categories[k], st))

\* Mutant of CategoryBlocks: the custom block comes first.
CustomBlockFirst(results) ==
    <<"custom", "general", "business_viability", "competitors", "audience", "trends",
      "regulatory">>
    \o SelectSeq(CategoryKeys(results, 1, <<>>), IsUnknown)

\* ai_integration.py:126-245: the blocks in the order in which they are written
CategoryBlocks(results) ==
    KnownCategories \o SelectSeq(CategoryKeys(results, 1, <<>>), IsUnknown)

\* Mutant of NewMapping: the mapping of the call before is used again.
KeptMapping(last) == last

\* ai_integration.py:124: source_mapping = {}, a local of the call
NewMapping(last) == {}

\* ai_integration.py:112-245
BuildContextOpenAI(results) ==
    EmitCategories(results, CategoryBlocks(results), 1,
                   [context |-> <<>>, source_mapping |-> NewMapping(source_mapping),
                    source_index |-> 1])

\* ai_integration.py:321-330, 394-403, 481-490
BuildContextFlat(results) ==
    [context |-> [i \in DOMAIN results |->
                    [n |-> i, url |-> results[i].url, title |-> results[i].title,
                     category |-> GetCategory(results[i]), position |-> i]],
     source_mapping |-> {},
     source_index |-> Len(results) + 1]

BuildContext(h, results) ==
    IF h = "openai" THEN BuildContextOpenAI(results) ELSE BuildContextFlat(results)

\* ai_integration.py:419
max_retries == 3

\* The texts a backend generates
GeneratedTexts == { Text("generated", TRUE, FALSE), Text("generated", FALSE, FALSE) }

\* ai_integration.py:55-58, 66-68: nothing to analyse, the templated report
Fallback ==
    /\ gen_pc = "start"
    /\ UsesFallback(search_results)
    /\ formatted_sources' = FormatSources(search_results)
    /\ response' = DummyResponse(query, FormatSources(search_results))
    /\ gen_pc' = "done"
    /\ UNCHANGED <<query, search_results, model, environ, handler, context,
                   source_mapping, requests_sent, retry_count>>
    /\ UNCHANGED <<pipeVars, search_outcomes, fetchVars, earlier, svcVars>>

\* ai_integration.py:72-83 and 106-110, 315-319, 388-392, 475-479: the backend
\* is called and finds no credential
MissingCredential ==
    /\ gen_pc = "start"
    /\ ~UsesFallback(search_results)
    /\ ~HasCredential(Handler(model), environ)
    /\ formatted_sources' = FormatSources(search_results)
    /\ handler' = Handler(model)
    /\ response' = Assemble(Text("credential_required", FALSE, FALSE),
                            FormatSources(search_results))
    /\ gen_pc' = "done"
    /\ UNCHANGED <<query, search_results, model, environ, context, source_mapping,
                   requests_sent, retry_count>>
    /\ UNCHANGED <<pipeVars, search_outcomes, fetchVars, earlier, svcVars>>

\* ai_integration.py:72-83 and 112-272, 321-342, 394-419, 481-502: the backend
\* is called and renders the context
PrepareRequest ==
    /\ gen_pc = "start"
    /\ ~UsesFallback(search_results)
    /\ HasCredential(Handler(model), environ)
    /\ formatted_sources' = FormatSources(search_results)
    /\ handler' = Handler(model)
    /\ LET built == BuildContext(Handler(model), ValidResults(search_results))
       IN  /\ context' = built.context
           /\ source_mapping' = built.source_mapping
    /\ retry_count' = 0
    /\ gen_pc' = "send"
    /\ UNCHANGED <<query, search_results, model, environ, requests_sent, response>>
    /\ UNCHANGED <<pipeVars, search_outcomes, fetchVars, earlier, svcVars>>

\* What can go wrong with one request:
\*   timeout, connection_error  requests.post raises (a RequestException)
\*   http_error                 raise_for_status raises for a 4xx/5xx status
\*   malformed_json             response.json() raises (a ValueError)
\*   missing_field              the body lacks a key or an element on the path to the
\*                              text (KeyError, IndexError; for Anthropic also the
\*                              ValueError of ai_integration.py:449)
\*   mistyped_body              a value on that path is of a type that cannot be
\*                              indexed that way (TypeError)
Failures ==
    {"timeout", "connection_error", "http_error", "malformed_json", "missing_field",
     "mistyped_body"}

\* ai_integration.py:452: the failures the inner handler of
\* _generate_response_anthropic catches
ParseFailures == {"malformed_json", "missing_field"}

\* Mutant of Retried: one more attempt is allowed.
RetriedOnceMore(h, failure, count) ==
    h = "anthropic" /\ failure \notin ParseFailures /\ count + 1 < max_retries + 1

\* Whether the backend sends the request again after this failure, count being
\* the value of retry_count before it.  Only _generate_response_anthropic
\* loops (ai_integration.py:421, 456-461); its inner handler makes a body that
\* is no JSON terminal (ai_integration.py:452-454).  The other backends return
\* from their except clause (ai_integration.py:299-301, 372-374, 530-532).
Retried(h, failure, count) ==
    h = "anthropic" /\ failure \notin ParseFailures /\ count + 1 < max_retries

\* The text returned for a terminal failure
FailureText(h, failure) ==
    IF h = "anthropic" /\ failure \in ParseFailures
    THEN Text("error_processing_response", FALSE, FALSE)
    ELSE Text("error_with_api", FALSE, FALSE)

\* requests.post(...) is sent and fails
RequestFails(failure) ==
    /\ gen_pc = "send"
    /\ requests_sent' = Append(requests_sent, failure)
    /\ IF Retried(handler, failure, retry_count)
       THEN /\ retry_count' = retry_count + 1
            /\ UNCHANGED <<gen_pc, response>>
       ELSE /\ retry_count' =
                 IF handler = "anthropic" /\ failure \notin ParseFailures
                 THEN retry_count + 1 ELSE retry_count
            /\ response' = Assemble(FailureText(handler, failure), formatted_sources)
            /\ gen_pc' = "done"
    /\ UNCHANGED <<query, search_results, model, environ, formatted_sources, handler,
                   context, source_mapping>>
    /\ UNCHANGED <<pipeVars, search_outcomes, fetchVars, earlier, svcVars>>

\* requests.exceptions.Timeout from requests.post
RequestTimesOut == RequestFails("timeout")

\* response.raise_for_status() raises for a 4xx/5xx status
RequestRejected == RequestFails("http_error")

\* requests.exceptions.ConnectionError from requests.post
ConnectionFails == RequestFails("connection_error")

\* response.json() raises: the body is no JSON
ResponseMalformed == RequestFails("malformed_json")

\* result["choices"][0]..., result["candidates"][0]..., result["content"][0]...,
\* result["generations"][0]... raises KeyError or IndexError
ResponseLacksField == RequestFails("missing_field")

\* the same expressions raise TypeError
ResponseMistyped == RequestFails("mistyped_body")

\* ai_integration.py:291-297, 364-370, 443-451, 522-528
RequestSucceeds ==
    /\ gen_pc = "send"
    /\ requests_sent' = Append(requests_sent, "ok")
    /\ \E text \in GeneratedTexts : response' = Assemble(text, formatted_sources)
    /\ gen_pc' = "done"
    /\ UNCHANGED <<query, search_results, model, environ, formatted_sources, handler,
                   context, source_mapping, retry_count>>
    /\ UNCHANGED <<pipeVars, search_outcomes, fetchVars, earlier, svcVars>>

\* The value None where a text is expected
MissingText == Text("None", FALSE, FALSE)

\* ai_integration.py:295-297, 368-370, 450-451, 526-528: the body has the
\* expected shape and its text field is null; the backend returns the value of
\* the field as it is.
ResponseTextMissing ==
    /\ gen_pc = "send"
    /\ requests_sent' = Append(requests_sent, "ok_null")
    /\ response' = Assemble(MissingText, formatted_sources)
    /\ gen_pc' = "done"
    /\ UNCHANGED <<query, search_results, model, environ, formatted_sources, handler,
                   context, source_mapping, retry_count>>
    /\ UNCHANGED <<pipeVars, search_outcomes, fetchVars, earlier, svcVars>>

NoText == Text("none", FALSE, FALSE)

GenInit ==
    /\ gen_pc = "start"
    /\ query \in Queries
    /\ search_results \in DocumentLists
    /\ model \in Models
    /\ environ \in Environments
    /\ formatted_sources = <<>>
    /\ handler = "none"
    /\ context = <<>>
    /\ source_mapping = {}
    /\ requests_sent = <<>>
    /\ retry_count = 0
    /\ response = NoText
    /\ earlier = <<>>

\* generate_ai_response is not running
GenIdle ==
    /\ gen_pc = "idle"
    /\ query = EmptyQuery
    /\ search_results = <<>>
    /\ model = "GPT-4o mini"
    /\ formatted_sources = <<>>
    /\ handler = "none"
    /\ context = <<>>
    /\ source_mapping = {}
    /\ requests_sent = <<>>
    /\ retry_count = 0
    /\ response = NoText
    /\ earlier = <<>>

GenNext ==
    \/ Fallback
    \/ MissingCredential
    \/ PrepareRequest
    \/ RequestTimesOut
    \/ ConnectionFails
    \/ RequestRejected
    \/ ResponseMalformed
    \/ ResponseLacksField
    \/ ResponseMistyped
    \/ ResponseTextMissing
    \/ RequestSucceeds

\* Bound: the calls of generate_ai_response in one process
MaxRuns == 2

\* generate_ai_response has returned and is called again in the same process,
\* with the same document list; nothing of the call before is kept but what
\* the caller holds (ai_integration.py:33-91 has no global and no default
\* argument that a call could change)
CallAgain ==
    /\ gen_pc = "done"
    /\ Len(earlier) + 1 < MaxRuns
    /\ earlier' = Append(earlier,
                         [search_results |-> search_results, handler |-> handler,
                          built |-> (requests_sent # <<>>),
                          formatted_sources |-> formatted_sources,
                          context |-> context])
    /\ gen_pc' = "start"
    /\ query' \in Queries
    /\ model' \in {model, "GPT-4o mini"}
    /\ formatted_sources' = <<>>
    /\ handler' = "none"
    /\ context' = <<>>
    /\ requests_sent' = <<>>
    /\ retry_count' = 0
    /\ response' = NoText
    /\ UNCHANGED <<search_results, environ, source_mapping>>
    /\ UNCHANGED <<pipeVars, search_outcomes, fetchVars, svcVars>>

\* api_validator.py:17-48: the keys of API_CONFIG
API_CONFIG ==
    {"SERP_API_KEY", "OPENAI_API_KEY", "GEMINI_API_KEY", "ANTHROPIC_API_KEY",
     "COHERE_API_KEY"}

\* A value of an environment variable or of the value argument, by what
\* save_api_key and validate_api_key look at: the length and the characters
\* of the stripped value, how it starts, and whether white space surrounds it.
KeyValue(text, len, chars_ok, prefix, padded) ==
    [text |-> text, len |-> len, chars_ok |-> chars_ok, prefix |-> prefix,
     padded |-> padded]

\* The variable is not set
Unset == KeyValue("<unset>", 0, TRUE, "", FALSE)

\* The value of a variable that was set before the process started
Preset == KeyValue("<preset>", 64, TRUE, "sk-", FALSE)

\* No call of save_api_key has been made
KeysIdle ==
    /\ key_store = [k \in API_CONFIG |-> IF k \in environ THEN Preset ELSE Unset]
    /\ save_log = <<>>

\* search_web on its own is not running
ParamsIdle ==
    /\ sw_pc = "idle"
    /\ search_args = [query |-> "general", recency |-> "Past month", num_results |-> 1]
    /\ search_params = {}

\* The service has answered no request
ApiIdle ==
    /\ clock = 1
    /\ research_store = {}
    /\ api_log = <<>>

SvcIdle == ParamsIdle /\ ApiIdle /\ KeysIdle

\* get_website_text_content is not running
FetchIdle ==
    /\ fetch_pc = "idle"
    /\ fetch_url = EmptyUrl
    /\ attempt = 1
    /\ gets = <<>>
    /\ sleeps = 0
    /\ fetched = Returns(EmptyText)
    /\ trace = <<>>

vars == <<pipeVars, genVars, search_outcomes, fetchVars, svcVars>>

Init ==
    /\ PipeInit
    /\ GenIdle
    /\ environ \in SearchEnvironments
    /\ search_outcomes = <<>>
    /\ FetchIdle
    /\ SvcIdle

Next == PipeNext

Spec == Init /\ [][Next]_vars

InitGen == PipeIdle /\ GenInit /\ search_outcomes = <<>> /\ FetchIdle /\ SvcIdle

SpecGen == InitGen /\ [][GenNext]_vars

\* The fan-out call by call, for every depth the interfaces offer and no
\* custom url
InitSearch ==
    /\ PipeEntered
    /\ search_depth \in 1..MaxSearchDepth
    /\ custom_urls = <<>>
    /\ GenIdle
    /\ environ \in SearchEnvironments
    /\ search_outcomes = <<>>
    /\ FetchIdle
    /\ SvcIdle

NextSearch ==
    \/ SearchWeb
    \/ RemoveDuplicates
    \/ InjectCustomUrls

SpecSearch == InitSearch /\ [][NextSearch]_vars

InitFetch ==
    /\ PipeIdle
    /\ GenIdle
    /\ environ = {}
    /\ search_outcomes = <<>>
    /\ FetchInit
    /\ SvcIdle

\* The loop of get_website_text_content keeps running: requests.get has a
\* timeout and the pauses are finite.
SpecFetch == InitFetch /\ [][FetchNext]_vars /\ WF_vars(FetchNext)

\* The recency choices of the interfaces and one they do not offer
Recencies == {"Any time", "Past year", "Past month", "Past week", "Past day", "Past hour"}

\* time_map.get(recency) for a recency that is no key of time_map, and the
\* value of "Any time"
None == "<None>"

\* Mutant of time_map: "Past week" is given the code of "Past month".
time_map_week_as_month(recency) ==
    CASE recency = "Any time" -> None
      [] recency = "Past year" -> "y"
      [] recency = "Past month" -> "m"
      [] recency = "Past week" -> "m"
      [] recency = "Past day" -> "d"
      [] OTHER -> None

\* scraper.py:100-106, 116: time_map.get(recency)
time_map(recency) ==
    CASE recency = "Any time" -> None
      [] recency = "Past year" -> "y"
      [] recency = "Past month" -> "m"
      [] recency = "Past week" -> "w"
      [] recency = "Past day" -> "d"
      [] OTHER -> None

\* The value of the SERP_API_KEY variable
SerpKey == "$SERP_API_KEY"

\* scraper.py:108-118: the request parameters
SearchParams(args) ==
    { <<"q", args.query>>, <<"api_key", SerpKey>>,
      <<"num", ToString(args.num_results)>>, <<"engine", "google">>,
      <<"safe", "active">> }
    \cup (IF time_map(args.recency) # None
          THEN { <<"tbs", "qdr:" \o time_map(args.recency)>> }
          ELSE {})

\* scraper.py:95-98: without the key search_web returns [] and sends nothing
SearchWithoutKey ==
    /\ sw_pc = "start"
    /\ ~HasSearchKey(environ)
    /\ sw_pc' = "returned"
    /\ UNCHANGED <<search_args, search_params>>
    /\ UNCHANGED <<pipeVars, genVars, search_outcomes, fetchVars, apiVars, keyVars>>

\* scraper.py:100-121: the parameters are built and handed to GoogleSearch
SendSearch ==
    /\ sw_pc = "start"
    /\ HasSearchKey(environ)
    /\ search_params' = SearchParams(search_args)
    /\ sw_pc' = "sent"
    /\ UNCHANGED search_args
    /\ UNCHANGED <<pipeVars, genVars, search_outcomes, fetchVars, apiVars, keyVars>>

\* The calls of search_web that search_and_extract_content makes
\* (scraper.py:164, 169): the query of a category, the recency passed on, the
\* number of results of a call of some depth
SearchArgs ==
    { [query |-> c.category, recency |-> r, num_results |-> c.num_results] :
        r \in Recencies,
        c \in UNION { Range(SearchCalls(d)) : d \in 1..MaxSearchDepth } }

InitParams ==
    /\ PipeIdle
    /\ GenIdle
    /\ environ \in SearchEnvironments
    /\ search_outcomes = <<>>
    /\ FetchIdle
    /\ sw_pc = "start"
    /\ search_args \in SearchArgs
    /\ search_params = {}
    /\ ApiIdle
    /\ KeysIdle

NextParams ==
    \/ SearchWithoutKey
    \/ SendSearch

\* One call of search_web up to its request
SpecParams == InitParams /\ [][NextParams]_vars

\* Bounds: the requests answered and the seconds that pass
MaxRequests == 3

MaxClock == 2

\* research_store[research_id] = research_data
StorePut(store, id, request) ==
    { d \in store : d.research_id # id }
    \cup { [research_id |-> id, request |-> request] }

\* research_store.get(research_id): the set of the stored results under the id
StoreGet(store, id) == { d \in store : d.research_id = id }

\* The ids a client asks for: those of the seconds of the run, and one that
\* was never given out
ResearchIds == 0..MaxClock

\* api.py:110-116, 150-156
ExportFormats == {"PDF", "JSON", "TXT", "MARKDOWN", "DOCX"}

\* The format arguments of the explored requests; NoFormats is a request of
\* /batch-export without the formats parameter
NoFormats == "<none>"

Formats == {"PDF", "markdown", "xml"}

\* str.upper() on the explored formats
Upper(format) ==
    CASE format = "markdown" -> "MARKDOWN"
      [] format = "xml" -> "XML"
      [] OTHER -> format

\* api.py:117-118
Supported(format) == Upper(format) \in ExportFormats

\* api.py:126-131, 162-166: "except Exception" around the whole handler; an
\* HTTPException raised inside the try is an Exception and is answered as 500
ExceptException(raised) == 500

Answer(endpoint, id, format, known, status, request) ==
    [endpoint |-> endpoint, research_id |-> id, format |-> format, known |-> known,
     status |-> status, request |-> request]

ApiFrame == UNCHANGED <<pipeVars, genVars, search_outcomes, fetchVars, paramVars, keyVars>>

\* Time passes between two requests
Tick ==
    /\ clock < MaxClock
    /\ clock' = clock + 1
    /\ UNCHANGED <<research_store, api_log>>
    /\ ApiFrame

\* api.py:67-90: POST /research runs to its end; the id is the second in
\* which the handler started.  The handler is a coroutine without an await, so
\* no other request runs between its first and its last statement.
CreateResearch ==
    /\ Len(api_log) < MaxRequests
    /\ LET request == Len(api_log) + 1
       IN  /\ research_store' = StorePut(research_store, clock, request)
           /\ api_log' = Append(api_log, Answer("POST /research", clock, NoFormats,
                                                 StoreGet(research_store, clock) # {},
                                                 200, request))
    /\ UNCHANGED clock
    /\ ApiFrame

\* api.py:91-95: search_and_extract_content raises (urlparse rejects a custom
\* url at scraper.py:189); nothing is stored
CreateResearchFails ==
    /\ Len(api_log) < MaxRequests
    /\ api_log' = Append(api_log, Answer("POST /research", clock, NoFormats,
                                          StoreGet(research_store, clock) # {},
                                          ExceptException(0), 0))
    /\ UNCHANGED <<clock, research_store>>
    /\ ApiFrame

\* api.py:97-102: GET /research/{research_id}
GetResearch ==
    /\ Len(api_log) < MaxRequests
    /\ \E id \in ResearchIds :
          LET found == StoreGet(research_store, id)
          IN  api_log' = Append(api_log,
                  IF found = {}
                  THEN Answer("GET /research", id, NoFormats, FALSE, 404, 0)
                  ELSE Answer("GET /research", id, NoFormats, TRUE, 200,
                              (CHOOSE d \in found : TRUE).request))
    /\ UNCHANGED <<clock, research_store>>
    /\ ApiFrame

\* api.py:104-131: POST /export
ExportResearch ==
    /\ Len(api_log) < MaxRequests
    /\ \E id \in ResearchIds : \E format \in Formats :
          LET found == StoreGet(research_store, id)
          IN  api_log' = Append(api_log,
                  IF found = {}
                  THEN Answer("POST /export", id, format, FALSE, ExceptException(404), 0)
                  ELSE IF ~Supported(format)
                  THEN Answer("POST /export", id, format, TRUE, ExceptException(400), 0)
                  ELSE Answer("POST /export", id, format, TRUE, 200,
                              (CHOOSE d \in found : TRUE).request))
    /\ UNCHANGED <<clock, research_store>>
    /\ ApiFrame

\* api.py:143-166: GET /batch-export/{research_id}; a format that is not
\* supported is left out of the answer
BatchExport ==
    /\ Len(api_log) < MaxRequests
    /\ \E id \in ResearchIds : \E format \in {NoFormats, "xml"} :
          LET found == StoreGet(research_store, id)
          IN  api_log' = Append(api_log,
                  IF found = {}
                  THEN Answer("GET /batch-export", id, format, FALSE,
                              ExceptException(404), 0)
                  ELSE Answer("GET /batch-export", id, format, TRUE, 200,
                              (CHOOSE d \in found : TRUE).request))
    /\ UNCHANGED <<clock, research_store>>
    /\ ApiFrame

InitApi ==
    /\ PipeIdle
    /\ GenIdle
    /\ environ \in SearchEnvironments
    /\ search_outcomes = <<>>
    /\ FetchIdle
    /\ ParamsIdle
    /\ ApiIdle
    /\ KeysIdle

NextApi ==
    \/ Tick
    \/ CreateResearch
    \/ CreateResearchFails
    \/ GetResearch
    \/ ExportResearch
    \/ BatchExport

\* The service answering up to MaxRequests requests
SpecApi == InitApi /\ [][NextApi]_vars

\* Bound: the calls of save_api_key
MaxSaves == 2

\* The key names of the explored calls; the last is no key of API_CONFIG
KeyNames == {"OPENAI_API_KEY", "SERP_API_KEY", "HF_API_KEY"}

\* The values of the explored calls: "", "  ", "bad", "sk-proj-0123456789",
\* the same between blanks, "sk-<script>0123", and 64 hexadecimal digits
KeyValues ==
    { KeyValue("", 0, TRUE, "", FALSE),
      KeyValue("  ", 0, TRUE, "", TRUE),
      KeyValue("bad", 3, TRUE, "", FALSE),
      KeyValue("sk-proj-0123456789", 18, TRUE, "sk-", FALSE),
      KeyValue(" sk-proj-0123456789 ", 18, TRUE, "sk-", TRUE),
      KeyValue("sk-<script>0123", 15, FALSE, "sk-", FALSE),
      KeyValue("0123...cdef", 64, TRUE, "", FALSE) }

\* text.strip() on the explored values
StrippedText(text) ==
    CASE text = "  " -> ""
      [] text = " sk-proj-0123456789 " -> "sk-proj-0123456789"
      [] OTHER -> text

\* value.strip()
Strip(value) ==
    KeyValue(StrippedText(value.text), value.len, value.chars_ok, value.prefix, FALSE)

\* "if value": the string is not empty
Truthy(value) == value.len > 0 \/ value.padded

\* api_validator.py:181-223
validate_api_key(key_name, value) ==
    /\ Truthy(value)
    /\ Strip(value).len >= 10
    /\ Strip(value).chars_ok
    /\ key_name = "OPENAI_API_KEY" => Strip(value).prefix = "sk-"
    /\ key_name = "ANTHROPIC_API_KEY" => Strip(value).prefix \in {"sk-", "ant-"}
    /\ key_name = "SERP_API_KEY" => Strip(value).len = 64
    /\ key_name = "GEMINI_API_KEY" => Strip(value).len = 39
    /\ key_name = "COHERE_API_KEY" => Strip(value).prefix = "co-"

\* api_validator.py:118: the test that lets the value into the environment
Storable(key_name, value) ==
    key_name \in API_CONFIG /\ Truthy(value) /\ Strip(value).len > 0

\* os.environ.get(key_name) as a text
Stored(store, key_name) ==
    IF key_name \in DOMAIN store THEN store[key_name].text ELSE Unset.text

\* api_validator.py:105-139: one call of save_api_key; live is what
\* test_api_key makes of the provider's answer
save_api_key(key_name, value, live) ==
    /\ Len(save_log) < MaxSaves
    /\ key_store' = IF Storable(key_name, value)
                    THEN [key_store EXCEPT ![key_name] = Strip(value)]
                    ELSE key_store
    /\ environ' = { k \in API_CONFIG : key_store'[k] # Unset }
    /\ save_log' = Append(save_log,
                          [key_name |-> key_name, value |-> value.text,
                           returned |-> (/\ Storable(key_name, value)
                                         /\ validate_api_key(key_name, value)
                                         /\ live),
                           before |-> Stored(key_store, key_name),
                           after |-> Stored(key_store', key_name)])
    /\ UNCHANGED <<gen_pc, query, search_results, model, formatted_sources, handler,
                   context, source_mapping, requests_sent, retry_count, response,
                   earlier>>
    /\ UNCHANGED <<pipeVars, search_outcomes, fetchVars, paramVars, apiVars>>

\* api_validator.py:136-138: the name is no key of API_CONFIG or the value is
\* empty
SaveRefused ==
    \E key_name \in KeyNames : \E value \in KeyValues :
        /\ ~Storable(key_name, value)
        /\ save_api_key(key_name, value, TRUE)

\* api_validator.py:123-125
SaveInvalidFormat ==
    \E key_name \in KeyNames : \E value \in KeyValues :
        /\ Storable(key_name, value)
        /\ ~validate_api_key(key_name, value)
        /\ save_api_key(key_name, value, TRUE)

\* api_validator.py:128-130
SaveTestFails ==
    \E key_name \in KeyNames : \E value \in KeyValues :
        /\ Storable(key_name, value)
        /\ validate_api_key(key_name, value)
        /\ save_api_key(key_name, value, FALSE)

\* api_validator.py:132-133
SaveSucceeds ==
    \E key_name \in KeyNames : \E value \in KeyValues :
        /\ Storable(key_name, value)
        /\ validate_api_key(key_name, value)
        /\ save_api_key(key_name, value, TRUE)

InitKeys ==
    /\ PipeIdle
    /\ GenIdle
    /\ environ \in { {}, {"SERP_API_KEY", "OPENAI_API_KEY"} }
    /\ search_outcomes = <<>>
    /\ FetchIdle
    /\ ParamsIdle
    /\ ApiIdle
    /\ KeysIdle

NextKeys ==
    \/ SaveRefused
    \/ SaveInvalidFormat
    \/ SaveTestFails
    \/ SaveSucceeds

\* Up to MaxSaves calls of save_api_key
SpecKeys == InitKeys /\ [][NextKeys]_vars

\* Documents of known categories and of categories the backend has no block
\* for
RerunCategories == {"general", "custom", "zeta", "alpha"}

RerunUrls == { u \in Urls : u # EmptyUrl /\ ~IsFileUrl(u) }

RerunLists ==
    SeqsUpTo({ Document(u, c) : u \in RerunUrls, c \in RerunCategories }, MaxDocs)

InitRerun ==
    /\ PipeIdle
    /\ gen_pc = "start"
    /\ query = EmptyQuery
    /\ search_results \in RerunLists
    /\ model \in {"GPT-4o mini", "Claude"}
    /\ environ \in { {}, {"OPENAI_API_KEY", "GEMINI_API_KEY", "ANTHROPIC_API_KEY",
                          "COHERE_API_KEY"} }
    /\ formatted_sources = <<>>
    /\ handler = "none"
    /\ context = <<>>
    /\ source_mapping = {}
    /\ requests_sent = <<>>
    /\ retry_count = 0
    /\ response = NoText
    /\ earlier = <<>>
    /\ search_outcomes = <<>>
    /\ FetchIdle
    /\ SvcIdle

NextRerun ==
    \/ Fallback
    \/ MissingCredential
    \/ PrepareRequest
    \/ ResponseLacksField
    \/ RequestSucceeds
    \/ CallAgain

\* generate_ai_response called up to MaxRuns times on one document list
SpecRerun == InitRerun /\ [][NextRerun]_vars

\* scraper.py:211-217: the pause, then get_website_text_content is entered
CallFetch ==
    /\ Proceeds
    /\ fetch_pc = "idle"
    /\ unique_results[idx].url # EmptyUrl
    /\ ~IsFileUrl(unique_results[idx].url)
    /\ pauses' = pauses + 1
    /\ trace' = Append(trace, Event("pause", unique_results[idx].url, 0))
    /\ fetch_pc' = "get"
    /\ fetch_url' = unique_results[idx].url
    /\ attempt' = 1
    /\ gets' = <<>>
    /\ sleeps' = 0
    /\ UNCHANGED fetched
    /\ UNCHANGED <<pc, search_depth, custom_urls, search_calls, all_search_results,
                   seen_urls, unique_results, idx, results_with_content,
                   processed_count, served>>
    /\ UNCHANGED <<genVars, search_outcomes, svcVars>>

\* scraper.py:217-237: get_website_text_content has returned or raised; the
\* candidate is skipped or its document is appended and counted
FetchReturns ==
    /\ pc = "loop"
    /\ fetch_pc = "done"
    /\ served' = Append(served, [url |-> fetch_url, raised |-> fetched.raised,
                                 text |-> fetched.text])
    /\ idx' = idx + 1
    /\ IF ~fetched.raised /\ ~Insufficient(fetched.text)
       THEN /\ results_with_content' =
                  Append(results_with_content,
                         ResultWithContent(unique_results[idx], fetched.text))
            /\ processed_count' = processed_count + 1
       ELSE UNCHANGED <<results_with_content, processed_count>>
    /\ fetch_pc' = "idle"
    /\ fetch_url' = EmptyUrl
    /\ attempt' = 1
    /\ gets' = <<>>
    /\ sleeps' = 0
    /\ fetched' = Returns(EmptyText)
    /\ UNCHANGED trace
    /\ UNCHANGED <<pc, search_depth, custom_urls, search_calls, all_search_results,
                   seen_urls, unique_results, pauses>>
    /\ UNCHANGED <<genVars, search_outcomes, svcVars>>

\* The candidate lists the loop can meet when no hit lacks its link: distinct
\* urls in any order
CandidateLists ==
    { c \in SeqsUpTo({ [title |-> "t1", url |-> u, category |-> NoCategory] :
                         u \in Urls \ {EmptyUrl} }, MaxHits) :
        \A i \in DOMAIN c : \A j \in DOMAIN c : i # j => c[i].url # c[j].url }

\* The extraction loop with get_website_text_content run attempt by attempt
InitCrawl ==
    /\ pc = "loop"
    /\ search_depth \in SearchDepths
    /\ custom_urls = <<>>
    /\ search_calls = SearchCalls(search_depth)
    /\ unique_results \in CandidateLists
    /\ all_search_results = unique_results
    /\ seen_urls = { unique_results[i].url : i \in DOMAIN unique_results }
    /\ idx = 1
    /\ results_with_content = <<>>
    /\ processed_count = 0
    /\ pauses = 0
    /\ served = <<>>
    /\ GenIdle
    /\ environ = {"SERP_API_KEY"}
    /\ search_outcomes = <<>>
    /\ FetchIdle
    /\ SvcIdle

NextCrawl ==
    \/ QuotaBreak
    \/ SkipFileUrl
    \/ CallFetch
    \/ GetRequestError
    \/ GetNotOk
    \/ GetNotHtml
    \/ GetUnexpectedError
    \/ GetHtml
    \/ FetchReturns
    \/ Exhausted

SpecCrawl == InitCrawl /\ [][NextCrawl]_vars

\* The candidate list for lists of up to MaxCustom + 1 custom urls
InitInject ==
    /\ PipeEntered
    /\ search_depth \in SearchDepths
    /\ custom_urls \in SeqsUpTo(Urls, MaxCustom + 1)
    /\ GenIdle
    /\ environ \in SearchEnvironments
    /\ search_outcomes = <<>>
    /\ FetchIdle
    /\ SvcIdle

NextInject ==
    \/ SearchFanout
    \/ RemoveDuplicates
    \/ InjectCustomUrls

SpecInject == InitInject /\ [][NextInject]_vars

----------------------------------------------------------------------------
(* Claims about search_and_extract_content *)

\* The candidate list is built and not yet shuffled.
Injected == pc = "shuffle"

Returned == pc = "done"

FirstHit(url) ==
    all_search_results[CHOOSE i \in DOMAIN all_search_results :
                          /\ all_search_results[i].url = url
                          /\ \A j \in 1..(i - 1) : all_search_results[j].url # url]

\* C1: once the dedup and custom-URL steps have run, no two candidates share a
\* url, and every url that occurred among the hits is held by one candidate that
\* carries the title and the category of the first hit with that url.
C1_DedupKeepsFirst ==
    Injected =>
        /\ \A i \in DOMAIN unique_results : \A j \in DOMAIN unique_results :
              i # j => unique_results[i].url # unique_results[j].url
        /\ \A h \in Range(all_search_results) :
              h.url # EmptyUrl =>
                 \E i \in DOMAIN unique_results :
                    /\ unique_results[i].url = h.url
                    /\ unique_results[i].title = FirstHit(h.url).title
                    /\ unique_results[i].category = FirstHit(h.url).category

\* A url occurs in two hits of different categories, and a custom url repeats
\* the url of a hit.
C1_Witness ==
    /\ Injected
    /\ \E i \in DOMAIN all_search_results : \E j \in DOMAIN all_search_results :
          /\ i < j
          /\ all_search_results[i].url = all_search_results[j].url
          /\ all_search_results[i].url # EmptyUrl
          /\ all_search_results[i].category # all_search_results[j].category
    /\ \E k \in DOMAIN custom_urls :
          \E h \in Range(all_search_results) : h.url = custom_urls[k]

\* The candidates processed so far whose extraction succeeded, in processing
\* order, each with the text that get_website_text_content returned for it.
Extractable(k) ==
    /\ ~served[k].raised
    /\ served[k].text # EmptyText
    /\ served[k].text.strip >= 100

CandidateOf(url) ==
    unique_results[CHOOSE i \in DOMAIN unique_results : unique_results[i].url = url]

RECURSIVE ExtractedFrom(_)
ExtractedFrom(k) ==
    IF k > Len(served) THEN <<>>
    ELSE IF Extractable(k)
         THEN <<[title |-> CandidateOf(served[k].url).title,
                 url |-> served[k].url,
                 category |-> GetCategory(CandidateOf(served[k].url)),
                 text |-> served[k].text]>> \o ExtractedFrom(k + 1)
         ELSE ExtractedFrom(k + 1)

\* The urls passed to get_website_text_content follow the processing order.
ServedInOrder ==
    \A k \in DOMAIN served : \A l \in DOMAIN served :
        k < l =>
          \E i \in DOMAIN unique_results : \E j \in DOMAIN unique_results :
             /\ i < j
             /\ j < idx
             /\ unique_results[i].url = served[k].url
             /\ unique_results[j].url = served[l].url

NeverFetched(url) == url = EmptyUrl \/ Lower(url.ext) \in FileExtensions

\* C2: the result holds exactly the documents of the extractable candidates met
\* in processing order, failed extractions leave no document and use up no
\* quota; it never exceeds search_depth, and it falls short of search_depth
\* only when every candidate has been processed.
C2_QuotaCountsSuccesses ==
    Returned =>
        /\ LET extracted == ExtractedFrom(1)
           IN  /\ Len(results_with_content) = Len(extracted)
               /\ \A k \in DOMAIN results_with_content :
                     /\ results_with_content[k].url = extracted[k].url
                     /\ results_with_content[k].title = extracted[k].title
                     /\ results_with_content[k].category = extracted[k].category
                     /\ results_with_content[k].content.src = extracted[k].text
        /\ ServedInOrder
        /\ \A i \in 1..(idx - 1) :
              \/ NeverFetched(unique_results[i].url)
              \/ \E k \in DOMAIN served : served[k].url = unique_results[i].url
        /\ Len(results_with_content) <= search_depth
        /\ \/ Len(results_with_content) = search_depth
           \/ idx > Len(unique_results)

\* A run in which an extraction failed, a later one succeeded, and the quota
\* was then met with a candidate left over.
C2_Witness ==
    /\ Returned
    /\ \E k \in DOMAIN served : \E l \in DOMAIN served :
          k < l /\ ~Extractable(k) /\ Extractable(l)
    /\ Len(results_with_content) = search_depth
    /\ idx <= Len(unique_results)

\* C3: once search_depth documents have been extracted, no further call of
\* get_website_text_content is made and no further pause is taken.
C3_EarlyTermination ==
    [][Len(results_with_content) >= search_depth =>
          served' = served /\ pauses' = pauses]_vars

\* The loop was left on the quota while a fetchable candidate was still
\* unprocessed.
C3_Witness ==
    /\ Returned
    /\ Len(results_with_content) >= search_depth
    /\ idx <= Len(unique_results)
    /\ ~NeverFetched(unique_results[idx].url)

\* C4: every returned document has at least 100 and at most 10,000 + 3
\* characters of content; a text longer than 10,000 characters is stored as its
\* first 10,000 characters followed by "...", any other text unchanged.
C4_ContentBounds ==
    \A k \in DOMAIN results_with_content :
        LET c == results_with_content[k].content
            stored == c.take + (IF c.marker THEN 3 ELSE 0)
        IN  /\ stored >= 100
            /\ stored <= 10000 + 3
            /\ c.src.len > 10000 => c.take = 10000 /\ c.marker
            /\ c.src.len <= 10000 => c.take = c.src.len /\ ~c.marker

\* A result holding a truncated text and a text of exactly 10,000 characters.
C4_Witness ==
    /\ Returned
    /\ \E k \in DOMAIN results_with_content :
          results_with_content[k].content.marker
    /\ \E k \in DOMAIN results_with_content :
          /\ results_with_content[k].content.src.len = 10000
          /\ ~results_with_content[k].content.marker

----------------------------------------------------------------------------
(* Claims about generate_ai_response *)

\* The backend was called with a credential and has rendered its context.
ContextBuilt == gen_pc \in {"send", "done"} /\ handler # "none" /\ KeyVar(handler) \in environ

GenReturned == gen_pc = "done"

UniqueUrls ==
    \A i \in DOMAIN search_results : \A j \in DOMAIN search_results :
        i # j => search_results[i].url # search_results[j].url

\* C5: the number n of "Source [n]" under which a document is shown to the
\* backend is the id of the citation with the same url in the returned list
\* (documents as the pipeline returns them, no url twice).
C5_ContextNumbersAreCitationIds ==
    (ContextBuilt /\ UniqueUrls) =>
        \A i \in DOMAIN context : \A j \in DOMAIN formatted_sources :
            formatted_sources[j].url = context[i].url =>
                formatted_sources[j].id = context[i].n

DistinctUrls == { search_results[i].url : i \in DOMAIN search_results }

\* C6: the categorized context builder emits each distinct url under exactly
\* one "Source [n]" header, source_mapping holds for it the number it got when
\* first seen, and the numbers used are exactly 1..k for k distinct urls.
C6_EachUrlNumberedOnce ==
    (ContextBuilt /\ handler = "openai") =>
        /\ \A u \in DistinctUrls :
              /\ Cardinality({ i \in DOMAIN context : context[i].url = u }) = 1
              /\ \E i \in DOMAIN context :
                    /\ context[i].url = u
                    /\ \A j \in 1..(i - 1) : context[j].url # u
                    /\ [url |-> u, n |-> context[i].n] \in source_mapping
        /\ { context[i].n : i \in DOMAIN context } = 1..Cardinality(DistinctUrls)

PrecedenceRank(category) ==
    CASE category = "general" -> 1
      [] category = "business_viability" -> 2
      [] category = "competitors" -> 3
      [] category = "audience" -> 4
      [] category = "trends" -> 5
      [] category = "regulatory" -> 6
      [] category = "custom" -> 7

IsTemplate(text) ==
    text.kind \in {"template_market", "template_competitor", "template_trend",
                   "template_customer"}

\* C8 as stated: for an empty document list no backend is called and the
\* templated report is returned with an empty citation list.
C8_FallbackAlwaysTemplate ==
    (GenReturned /\ search_results = <<>>) =>
        /\ handler = "none"
        /\ requests_sent = <<>>
        /\ IsTemplate(response)
        /\ ~response.empty
        /\ formatted_sources = <<>>

\* C8 as amended: for an empty document list no backend is called, no request
\* is sent, the citation list is empty and the text is not empty; the text is
\* the templated report when the query is not empty, and the message
\* "Error: Invalid query format" when it is.
C8_FallbackOnEmptyResults ==
    (GenReturned /\ search_results = <<>>) =>
        /\ handler = "none"
        /\ requests_sent = <<>>
        /\ ~response.empty
        /\ formatted_sources = <<>>
        /\ query.len > 0 => IsTemplate(response)
        /\ query.len = 0 => response.kind = "invalid_query"

\* The fallback was taken for a query that is not empty while the credentials
\* are set.
C8_Witness ==
    /\ GenReturned
    /\ search_results = <<>>
    /\ query.len > 0
    /\ environ # {}
    /\ IsTemplate(response)

ErrorKinds == {"error_with_api", "error_processing_response"}

\* What a backend returns for a request that was answered: the text field of
\* the body, whatever it holds.
AnswerKinds == {"generated", "None"}

\* C9: one call sends at most 3 requests, never sends again after the third,
\* and ends with the answer of the provider or an error string; when every
\* request timed out it ends with the error string.
C9_RetryBound ==
    /\ Len(requests_sent) <= 3
    /\ gen_pc = "send" => Len(requests_sent) < 3
    /\ (GenReturned /\ requests_sent # <<>>) =>
          response.kind \in AnswerKinds \cup ErrorKinds
    /\ (GenReturned /\ requests_sent # <<>>
          /\ \A i \in DOMAIN requests_sent : requests_sent[i] = "timeout")
          => response.kind \in ErrorKinds

\* A backend timed out three times and the call ended with the error string.
C9_Witness ==
    /\ GenReturned
    /\ requests_sent = <<"timeout", "timeout", "timeout">>
    /\ response.kind \in ErrorKinds

\* C10: a failure that is no timeout (an error status, a body that is no JSON)
\* ends the call: it is the last request sent and the error string is returned.
C10_OtherFailuresAreTerminal ==
    \A i \in DOMAIN requests_sent :
        requests_sent[i] \in {"http_error", "malformed_json"} =>
            /\ i = Len(requests_sent)
            /\ GenReturned
            /\ response.kind \in ErrorKinds

\* C11: a request that timed out while fewer than 3 requests had been sent is
\* followed by another request (the call is still sending or has sent one
\* more), so a timeout is never the last request of a call that sent fewer
\* than 3.
C11_TimeoutIsRetried ==
    \A i \in DOMAIN requests_sent :
        (requests_sent[i] = "timeout" /\ i < 3) =>
            \/ i < Len(requests_sent)
            \/ gen_pc = "send"

\* C12: a backend that finds its credential absent sends no request and
\* returns the credential-required message, whatever the documents and the
\* query are.
C12_MissingCredentialMessage ==
    (GenReturned /\ handler # "none" /\ KeyVar(handler) \notin environ) =>
        /\ requests_sent = <<>>
        /\ context = <<>>
        /\ response.kind = "credential_required"
        /\ ~response.empty

\* The Anthropic backend was called while only the OpenAI key is set.
C12_Witness ==
    /\ GenReturned
    /\ handler = "anthropic"
    /\ environ = {"OPENAI_API_KEY"}
    /\ response.kind = "credential_required"

\* C13: when the backend was called for a list of documents and the text it
\* returned holds none of the markers "[1]" .. "[n]", the returned report ends
\* with the "Sources" list; when the text holds a marker nothing is appended.
C13_SourcesAppendedWithoutMarkers ==
    (GenReturned /\ handler # "none" /\ formatted_sources # <<>>) =>
        /\ ~response.has_markers => response.sources_appended
        /\ response.has_markers => ~response.sources_appended

IsString(text) == text.kind # "None"

\* C14: whatever the provider does, generate_ai_response returns a report
\* string and the citation list of the documents.
C14_AlwaysReturnsText ==
    GenReturned =>
        /\ IsString(response)
        /\ Len(formatted_sources) = Len(search_results)

----------------------------------------------------------------------------
(* Claims about the search fan-out *)

FanoutDone == pc \in {"dedup", "custom", "shuffle"}

CandidatesBuilt == pc \in {"custom", "shuffle"}

FacetsSearched == search_depth >= 3

\* C15: a search call that fails (no key, provider error, timeout) returns no
\* result and raises nothing; the fan-out goes on to issue every search of the
\* depth; the results of the calls that succeeded are all in
\* all_search_results under their category, and their urls are all among the
\* candidates.
C15_PartialFailureTolerated ==
    /\ pc # "raised"
    /\ \A k \in DOMAIN search_outcomes :
          search_outcomes[k].kind # "ok" => search_outcomes[k].hits = <<>>
    /\ FanoutDone =>
          /\ Len(search_calls) = (IF FacetsSearched THEN 6 ELSE 1)
          /\ Len(search_outcomes) = Len(search_calls)
          /\ \A k \in DOMAIN search_outcomes : \A i \in DOMAIN search_outcomes[k].hits :
                \E j \in DOMAIN all_search_results :
                   /\ all_search_results[j].url = search_outcomes[k].hits[i]
                   /\ GetCategory(all_search_results[j]) = search_calls[k].category
    /\ CandidatesBuilt =>
          \A k \in DOMAIN search_outcomes : \A i \in DOMAIN search_outcomes[k].hits :
             search_outcomes[k].hits[i] # EmptyUrl =>
                \E j \in DOMAIN unique_results :
                   unique_results[j].url = search_outcomes[k].hits[i]

\* The general search timed out, a facet search met a provider error, a later
\* facet search returned a result, which is among the candidates.
C15_Witness ==
    /\ CandidatesBuilt
    /\ search_outcomes[1].kind = "timeout"
    /\ \E k \in DOMAIN search_outcomes : \E l \in DOMAIN search_outcomes :
          /\ k < l
          /\ search_outcomes[k].kind = "error"
          /\ search_outcomes[l].kind = "ok"
          /\ \E i \in DOMAIN search_outcomes[l].hits :
                /\ search_outcomes[l].hits[i] # EmptyUrl
                /\ \E j \in DOMAIN unique_results :
                      unique_results[j].url = search_outcomes[l].hits[i]

ExpectedPerCategory(d) == IF d \div 6 > 1 THEN d \div 6 ELSE 1

\* C16: for every depth d in 1..10 the searches issued are the general search
\* for 2 * max(1, d div 6) results and then, exactly when d >= 3, the searches
\* business_viability, competitors, audience, trends, regulatory in this order
\* for max(1, d div 6) results each.
C16_SearchCallSequence ==
    FanoutDone =>
        search_calls =
            <<[category |-> "general",
               num_results |-> 2 * ExpectedPerCategory(search_depth)]>>
            \o (IF search_depth >= 3
                THEN [i \in 1..5 |->
                        [category |-> <<"business_viability", "competitors", "audience",
                                        "trends", "regulatory">>[i],
                         num_results |-> ExpectedPerCategory(search_depth)]]
                ELSE <<>>)

\* The fan-out of depth 10 is complete.
C16_Witness ==
    /\ FanoutDone
    /\ search_depth = 10
    /\ Len(search_calls) = 6

----------------------------------------------------------------------------
(* Claims about the custom urls *)

OrganicUrls == { all_search_results[i].url : i \in DOMAIN all_search_results } \ { EmptyUrl }

\* The custom urls that are not among the organic urls, each once, in the
\* order in which the user gave them.
RECURSIVE NewCustomUrls(_, _)
NewCustomUrls(i, seen) ==
    IF i > Len(custom_urls) THEN <<>>
    ELSE IF custom_urls[i] \in seen THEN NewCustomUrls(i + 1, seen)
         ELSE <<custom_urls[i]>> \o NewCustomUrls(i + 1, seen \cup {custom_urls[i]})

\* C17: after the injection and before the shuffle the candidate list is the
\* injected custom hits, one per custom url not already present, in the order
\* in which the user gave them, followed by the organic hits in their
\* deduplicated order.
C17_CustomHeadInUserOrder ==
    Injected =>
        LET new == NewCustomUrls(1, OrganicUrls)
        IN  /\ Len(unique_results) >= Len(new)
            /\ \A i \in DOMAIN new : unique_results[i] = CustomHit(new[i])
            /\ \A i \in DOMAIN unique_results :
                  i > Len(new) =>
                     /\ unique_results[i].category # "custom"
                     /\ unique_results[i] \in Range(all_search_results)
            /\ \A i \in DOMAIN unique_results : \A j \in DOMAIN unique_results :
                  (Len(new) < i /\ i < j) =>
                     \E k \in DOMAIN all_search_results : \E l \in DOMAIN all_search_results :
                        /\ k < l
                        /\ all_search_results[k] = unique_results[i]
                        /\ all_search_results[l] = unique_results[j]

\* C18: when a run returns a custom document and organic documents, the
\* citation list that generate_ai_response builds from the returned list gives
\* every custom document an id lower than the id of every organic document.
C18_CustomCitedFirst ==
    Returned =>
        LET citations == FormatSources(results_with_content)
        IN  \A i \in DOMAIN results_with_content : \A j \in DOMAIN results_with_content :
               (results_with_content[i].category = "custom"
                   /\ results_with_content[j].category # "custom")
                   => citations[i].id < citations[j].id

----------------------------------------------------------------------------
(* Claims about get_website_text_content *)

FetchDone == fetch_pc = "done"

\* The attempt ended in a request error, an unsuccessful status, or a page from
\* which both strategies take fewer than 100 characters.
FailedAttempt(outcome) ==
    \/ outcome.kind \in {"request_error", "not_ok"}
    \/ /\ outcome.kind = "html"
       /\ outcome.page.extracted.strip < 100
       /\ outcome.page.visible.strip < 100

\* C19: one call issues at most 3 GETs and comes to an end; when every attempt
\* failed it has issued 3 GETs and returns the empty string, which the
\* pipeline takes for insufficient content, and raises nothing.
C19_FetchBounded ==
    /\ [](/\ Len(gets) <= 3
          /\ \A i \in DOMAIN gets : gets[i] \in GetOutcomes
          /\ (FetchDone /\ \A i \in DOMAIN gets : FailedAttempt(gets[i])) =>
                /\ Len(gets) = 3
                /\ fetched = [raised |-> FALSE, text |-> EmptyText]
                /\ Insufficient(fetched.text))
    /\ <>FetchDone

\* A request error, an unsuccessful status and a page without enough text, in
\* this order, ended the call.
C19_Witness ==
    /\ FetchDone
    /\ Len(gets) = 3
    /\ gets[1].kind = "request_error"
    /\ gets[2].kind = "not_ok"
    /\ gets[3].kind = "html"
    /\ fetched = [raised |-> FALSE, text |-> EmptyText]

\* C20 as stated: an unsuccessful response and a response that is not HTML
\* each fail the current attempt only: when fewer than 3 GETs have been
\* issued, another GET follows.
C20_NonHtmlIsRetried ==
    \A i \in DOMAIN gets :
        (gets[i].kind \in {"not_ok", "not_html"} /\ i < 3) =>
            \/ i < Len(gets)
            \/ fetch_pc = "get"

\* C20 as amended: an unsuccessful response fails the current attempt only
\* (another GET follows when fewer than 3 have been issued), whereas a
\* response that is not HTML ends the call: it is the last GET, no pause
\* follows it, and the empty string is returned.
C20_NonHtmlEndsCall ==
    \A i \in DOMAIN gets :
        /\ (gets[i].kind = "not_ok" /\ i < 3) =>
              \/ i < Len(gets)
              \/ fetch_pc = "get"
        /\ gets[i].kind = "not_html" =>
              /\ i = Len(gets)
              /\ FetchDone
              /\ fetched = [raised |-> FALSE, text |-> EmptyText]
              /\ sleeps = i - 1

\* An unsuccessful response was followed by a GET whose response was not HTML.
C20_Witness ==
    /\ FetchDone
    /\ Len(gets) = 2
    /\ gets[1].kind = "not_ok"
    /\ gets[2].kind = "not_html"

----------------------------------------------------------------------------
(* Claims about the extraction loop *)

\* The path of the url ends in one of the seven document extensions, in
\* either case.
EndsInDocumentExtension(url) ==
    url.ext \in {".pdf", ".doc", ".docx", ".ppt", ".pptx", ".xls", ".xlsx",
                 ".PDF", ".DOC", ".DOCX", ".PPT", ".PPTX", ".XLS", ".XLSX", ".Docx"}

\* C21: the step taken for a candidate whose path ends in a document extension
\* issues no request and takes no pause, produces no document, leaves the quota
\* counter as it is and moves to the next candidate.
C21_FileUrlsSkipped ==
    [][(Proceeds /\ EndsInDocumentExtension(unique_results[idx].url)) =>
          /\ served' = served
          /\ pauses' = pauses
          /\ results_with_content' = results_with_content
          /\ processed_count' = processed_count
          /\ idx' = idx + 1
          /\ pc' = pc]_vars

\* A candidate with the path /r.PDF was passed over and a candidate after it
\* was extracted.
C21_Witness ==
    /\ Returned
    /\ \E i \in DOMAIN unique_results :
          /\ i < idx
          /\ unique_results[i].url.ext = ".PDF"
          /\ \E k \in DOMAIN results_with_content :
                \E j \in DOMAIN unique_results :
                   i < j /\ unique_results[j].url = results_with_content[k].url

\* C22: every requests.get of a run comes right after a pause: the first
\* attempt for a candidate after the rate-limit pause taken for that candidate,
\* every further attempt after the pause that ended the attempt before it; so
\* no two requests follow each other without a pause, whatever their hosts.
C22_PauseBeforeEveryGet ==
    /\ \A i \in DOMAIN trace :
          trace[i].kind = "get" =>
             /\ i > 1
             /\ IF trace[i].attempt = 1
                THEN trace[i - 1] = [kind |-> "pause", url |-> trace[i].url, attempt |-> 0]
                ELSE trace[i - 1] = [kind |-> "sleep", url |-> trace[i].url,
                                     attempt |-> trace[i].attempt - 1]
    /\ \A k \in DOMAIN served :
          \E i \in DOMAIN trace : trace[i] = [kind |-> "pause", url |-> served[k].url,
                                              attempt |-> 0]

\* A url was requested a second time after an unsuccessful response, and a
\* url of another host was requested after it.
C22_Witness ==
    \E i \in DOMAIN trace : \E j \in DOMAIN trace :
        /\ i < j
        /\ trace[i].kind = "get"
        /\ trace[i].attempt = 2
        /\ trace[j].kind = "get"
        /\ trace[j].url.netloc # trace[i].url.netloc

(* Claims about the generation backends' response envelope *)

\* The answers with status 200 whose body does not hold a text where the
\* backend reads it: the path is absent, or a value on it has the wrong shape.
EnvelopeFailures == {"missing_field", "mistyped_body"}

\* C23: a request answered with an unexpected envelope is the last request of
\* its call, for every backend: the call has returned, with an error string.
C23_EnvelopeErrorIsTerminal ==
    \A i \in DOMAIN requests_sent :
        requests_sent[i] \in EnvelopeFailures =>
            /\ i = Len(requests_sent)
            /\ gen_pc = "done"
            /\ response.kind \in ErrorKinds

(* Claims about the citations of repeated calls *)

AlphabeticalRank(category) ==
    CASE category = "alpha" -> 1
      [] category = "zeta" -> 2
      [] OTHER -> 0

\* C25: in the context of the OpenAI backend the documents of categories that
\* are none of the seven known ones come after every document of a known
\* category, and among themselves in alphabetical order of their category
\* names, whatever the order of the document list.
C25_UnknownCategoriesAlphabetical ==
    (handler = "openai" /\ gen_pc \in {"send", "done"}) =>
        \A i \in DOMAIN context : \A j \in DOMAIN context :
            (i < j /\ IsUnknown(context[i].category)) =>
                /\ IsUnknown(context[j].category)
                /\ AlphabeticalRank(context[i].category)
                      <= AlphabeticalRank(context[j].category)

(* Claims about the search request *)

ParamsSent == sw_pc = "sent"

Param(name) == { p[2] : p \in { q \in search_params : q[1] = name } }

\* C26: the request of search_web carries tbs = qdr:y, qdr:m, qdr:w, qdr:d
\* for "Past year", "Past month", "Past week", "Past day" and no tbs for
\* "Any time"; q, api_key, num, engine and safe are the query, the key, the
\* number of results, "google" and "active" whatever the recency is, and the
\* request has no other parameter.
C26_RecencyFilter ==
    ParamsSent =>
        /\ search_args.recency = "Past year" => Param("tbs") = {"qdr:y"}
        /\ search_args.recency = "Past month" => Param("tbs") = {"qdr:m"}
        /\ search_args.recency = "Past week" => Param("tbs") = {"qdr:w"}
        /\ search_args.recency = "Past day" => Param("tbs") = {"qdr:d"}
        /\ search_args.recency = "Any time" => Param("tbs") = {}
        /\ Param("q") = {search_args.query}
        /\ Param("api_key") = {SerpKey}
        /\ Param("num") = {ToString(search_args.num_results)}
        /\ Param("engine") = {"google"}
        /\ Param("safe") = {"active"}
        /\ { p[1] : p \in search_params } \subseteq
              {"q", "api_key", "num", "engine", "safe", "tbs"}

\* A facet search restricted to the past week has been sent.
C26_Witness ==
    /\ ParamsSent
    /\ search_args.recency = "Past week"
    /\ search_args.query = "competitors"
    /\ <<"tbs", "qdr:w">> \in search_params

(* Claims about the service *)

Completed(k) == api_log[k].endpoint = "POST /research" /\ api_log[k].status = 200

\* C27: the completed POST /research requests have ids that differ from one
\* another, and the store holds under the id of each of them the result of that
\* request, which is what GET /research/{id} answers with.
C27_StoredNeverOverwritten ==
    /\ \A i \in DOMAIN api_log : \A j \in DOMAIN api_log :
          (i # j /\ Completed(i) /\ Completed(j)) =>
              api_log[i].research_id # api_log[j].research_id
    /\ \A i \in DOMAIN api_log :
          Completed(i) =>
              [research_id |-> api_log[i].research_id, request |-> i] \in research_store
    /\ \A i \in DOMAIN api_log : \A k \in DOMAIN api_log :
          (Completed(i) /\ i < k /\ api_log[k].endpoint = "GET /research"
             /\ api_log[k].research_id = api_log[i].research_id) =>
              api_log[k].request = i

\* C29: /export and /batch-export answer a research_id that is not stored
\* with 404, /export answers a format that is not supported with 400, and
\* neither is answered with 500.
C29_ExportErrorStatus ==
    \A k \in DOMAIN api_log :
        api_log[k].endpoint \in {"POST /export", "GET /batch-export"} =>
            /\ ~api_log[k].known => api_log[k].status = 404
            /\ (api_log[k].endpoint = "POST /export" /\ api_log[k].known
                  /\ ~Supported(api_log[k].format)) => api_log[k].status = 400

(* Claims about the credential store *)

\* C28: a call of save_api_key that returned False has left the environment
\* variable of its key as it was before the call.
C28_FailureLeavesStoreUnchanged ==
    \A i \in DOMAIN save_log :
        ~save_log[i].returned => save_log[i].after = save_log[i].before

(* Claims about the provider dispatch *)

BackendCalled == gen_pc \in {"send", "done"} /\ ~UsesFallback(search_results)

\* C30: a call of generate_ai_response with a document list that has content
\* enters one backend, whatever the model name: OpenAI for "GPT-4o mini",
\* Gemini for "Gemini", Anthropic for "Claude", Cohere for "Cohere", and
\* OpenAI for every other name; the requests of the call all go to it.
C30_DispatchTotal ==
    /\ BackendCalled =>
          /\ handler \in {"openai", "gemini", "anthropic", "cohere"}
          /\ model = "GPT-4o mini" => handler = "openai"
          /\ model = "Gemini" => handler = "gemini"
          /\ model = "Claude" => handler = "anthropic"
          /\ model = "Cohere" => handler = "cohere"
          /\ model \notin {"GPT-4o mini", "Gemini", "Claude", "Cohere"}
                => handler = "openai"
    /\ handler = "none" => requests_sent = <<>>

\* A call with a model name that is not known has returned what the OpenAI
\* backend generated.
C30_Witness ==
    /\ gen_pc = "done"
    /\ model = "Llama"
    /\ handler = "openai"
    /\ requests_sent = <<"ok">>
    /\ response.kind = "generated"

====
